---- MODULE Spec2Model ----
(***************************************************************************)
(* Prompts of Alexandria: the template file store, the change-detection    *)
(* cache, the storage root and the HTTP handlers of nodes.py.              *)
(*                                                                         *)
(* Strings are sequences of one-character strings, so that the sanitizer   *)
(* can be computed character by character.  A filesystem path is the       *)
(* sequence of its components; an absolute path starts with "/".           *)
(* A JSON object is a function from its keys (strings) to its values.      *)
(***************************************************************************)
EXTENDS Integers, Sequences, FiniteSets, TLC

VARIABLES
    current_storage_dir,  \* _current_storage_dir (nodes.py:31)
    template_state,       \* _template_state (nodes.py:36), in insertion order
    dirs,                 \* the directories that exist on disk
    files,                \* the files on disk: <<directory, stem>> -> text
    last,                 \* the last operation served and its response
    awaiting              \* the requests suspended at await request.json()

vars ==
    <<current_storage_dir, template_state, dirs, files, last, awaiting>>

---------------------------------------------------------------------------
(* Program constants *)

MAX_TEMPLATE_STATE_ENTRIES == 200

DEFAULT_STORAGE_DIR == <<"alexandria_templates">>

\* os.getcwd(): the working directory of the host process.
Cwd == <<"/", "cwd">>

\* data.get("template_name", "Unnamed") / template_data.get('name', 'Unnamed')
Unnamed == <<"U", "n", "n", "a", "m", "e", "d">>

---------------------------------------------------------------------------
(* The storage root.  A root value is None, a string (a path, given by its *)
(* components; "" is the empty sequence) or a JSON value that is no string *)
(* (POST /alexandria/storage-dir stores whatever the body carries).        *)

RootNone == [k |-> "none", p |-> <<>>]
RootStr(p) == [k |-> "str", p |-> p]
RootNum == [k |-> "num", p |-> <<>>]

\* Python truthiness of a root value: None and "" are falsy.
Truthy(r) == r.k = "num" \/ (r.k = "str" /\ r.p # <<>>)

IsAbsolute(p) == Len(p) > 0 /\ p[1] = "/"

\* Path(storage_dir) raises TypeError unless storage_dir is a string.
ResolveFails(r) == Truthy(r) /\ r.k # "str"

\* GetStoragePath with the root read once, when it was still unset.
GetStoragePathUnset(r) == Cwd \o DEFAULT_STORAGE_DIR

\* _get_storage_path(): the absolute directory of root value r
\* (defined when ~ResolveFails(r)).
GetStoragePath(r) ==
    LET storage_dir == IF Truthy(r) THEN r.p ELSE DEFAULT_STORAGE_DIR
    IN  IF IsAbsolute(storage_dir) THEN storage_dir ELSE Cwd \o storage_dir

\* A path below a file that is no directory: mkdir(parents=True) and open()
\* raise there, exists() answers False.
NotADirectory == <<"/", "dev", "null">>

IsPrefix(p, q) == Len(p) <= Len(q) /\ SubSeq(q, 1, Len(p)) = p

MkdirFails(path) == IsPrefix(NotADirectory, path)

---------------------------------------------------------------------------
(* The filename sanitizer *)

invalid_chars == <<"<", ">", ":", "\"", "/", "\\", "|", "?", "*">>

\* str.strip() removes these from both ends.
Whitespace == {" ", "\t", "\n", "\r"}

\* ReplaceChar replacing the first occurrence only.
ReplaceFirstChar(name, char) ==
    [i \in 1..Len(name) |->
        IF name[i] = char /\ \A j \in 1..(i - 1) : name[j] # char
        THEN "_" ELSE name[i]]

\* name.replace(char, '_')
ReplaceChar(name, char) ==
    [i \in 1..Len(name) |-> IF name[i] = char THEN "_" ELSE name[i]]

RECURSIVE ReplaceLoop(_, _)
ReplaceLoop(name, i) ==
    IF i > Len(invalid_chars) THEN name
    ELSE ReplaceLoop(ReplaceChar(name, invalid_chars[i]), i + 1)

RECURSIVE LStrip(_)
LStrip(s) ==
    IF s # <<>> /\ Head(s) \in Whitespace THEN LStrip(Tail(s)) ELSE s

RECURSIVE RStrip(_)
RStrip(s) ==
    IF s # <<>> /\ s[Len(s)] \in Whitespace
    THEN RStrip(SubSeq(s, 1, Len(s) - 1)) ELSE s

Strip(s) == RStrip(LStrip(s))

\* _sanitize_filename(name)
SanitizeFilename(name) == Strip(ReplaceLoop(name, 1))

---------------------------------------------------------------------------
(* JSON objects and the files that hold them *)

\* dict.get(key, default)
Get(obj, key, default) == IF key \in DOMAIN obj THEN obj[key] ELSE default

\* obj[key] = value on a dict: the key is added or its value replaced.
Put(obj, key, value) == (key :> value) @@ obj

\* json.dump(template_data, f, indent=2, ensure_ascii=False): the text of a
\* file that parses back to obj.
JsonDump(obj) == [valid |-> TRUE, obj |-> obj]

\* The text of a file json.load() fails on.
CorruptText == [valid |-> FALSE, obj |-> ("corrupt" :> TRUE)]

\* storage_path / f"{safe_name}.json"
FilePath(storage_path, safe_name) == <<storage_path, safe_name>>

\* hashlib.md5(...).hexdigest(): taken to be free of collisions, so the
\* digest is identified with the text it is computed from.
MD5(text) == [md5 |-> text]

\* SaveToFile with the file named after the name as given.
SaveToFileRawName(r, ds, fs, template_data) ==
    IF ResolveFails(r) \/ MkdirFails(GetStoragePath(r)) THEN
        [raised |-> TRUE, dirs |-> ds, files |-> fs, file_path |-> <<>>]
    ELSE LET storage_path == GetStoragePath(r)
             file_path == FilePath(storage_path,
                                   Get(template_data, "name", Unnamed))
         IN  [raised |-> FALSE,
              dirs |-> ds \cup {storage_path},
              files |-> (file_path :> JsonDump(template_data)) @@ fs,
              file_path |-> file_path]

\* SaveToFile with the file opened for appending: a file that was there
\* holds the old text and the new one after it, which json.load() rejects.
SaveToFileAppend(r, ds, fs, template_data) ==
    IF ResolveFails(r) \/ MkdirFails(GetStoragePath(r)) THEN
        [raised |-> TRUE, dirs |-> ds, files |-> fs, file_path |-> <<>>]
    ELSE LET storage_path == GetStoragePath(r)
             safe_name ==
                 SanitizeFilename(Get(template_data, "name", Unnamed))
             file_path == FilePath(storage_path, safe_name)
         IN  [raised |-> FALSE,
              dirs |-> ds \cup {storage_path},
              files |-> (file_path :> IF file_path \in DOMAIN fs
                                     THEN CorruptText
                                     ELSE JsonDump(template_data)) @@ fs,
              file_path |-> file_path]

\* _save_template_to_file(template_data) under root value r and the disk
\* (ds, fs): the disk afterwards and the path written, or raised = TRUE with
\* the disk as the exception left it.
SaveToFile(r, ds, fs, template_data) ==
    IF ResolveFails(r) THEN
        [raised |-> TRUE, dirs |-> ds, files |-> fs, file_path |-> <<>>]
    ELSE LET storage_path == GetStoragePath(r) IN
    IF MkdirFails(storage_path) THEN
        [raised |-> TRUE, dirs |-> ds, files |-> fs, file_path |-> <<>>]
    ELSE LET template_name == Get(template_data, "name", Unnamed)
             safe_name == SanitizeFilename(template_name)
             file_path == FilePath(storage_path, safe_name)
         IN  [raised |-> FALSE,
              dirs |-> ds \cup {storage_path},
              files |-> (file_path :> JsonDump(template_data)) @@ fs,
              file_path |-> file_path]

\* LoadOne with the name always taken from the file's stem.
LoadOneStemName(fs, file_path) ==
    LET template == fs[file_path].obj
        stem == file_path[2]
        t1 == Put(template, "name", stem)
        t2 == IF "id" \in DOMAIN t1 THEN t1
              ELSE Put(t1, "id", MD5(stem))
    IN  Put(t2, "_file_path", file_path)

\* The body of the loop of _load_templates_from_directory for one file.
LoadOne(fs, file_path) ==
    LET template == fs[file_path].obj
        stem == file_path[2]
        t1 == IF "name" \in DOMAIN template THEN template
              ELSE Put(template, "name", stem)
        t2 == IF "id" \in DOMAIN t1 THEN t1
              ELSE Put(t1, "id", MD5(stem))
    IN  Put(t2, "_file_path", file_path)

\* _load_templates_from_directory(): the templates of the files of the
\* storage directory that parse (defined when ~ResolveFails(r)).  The
\* order of the list is the directory's enumeration order, which the code
\* does not fix: the result is modelled as the set of its elements.
LoadFromDirectory(r, ds, fs) ==
    LET storage_path == GetStoragePath(r) IN
    IF storage_path \notin ds THEN {}
    ELSE { LoadOne(fs, fp) :
             fp \in { q \in DOMAIN fs : q[1] = storage_path /\ fs[q].valid } }

\* DeleteFile with the file looked up under the name as given.
DeleteFileRawName(r, fs, template_name) ==
    LET storage_path == GetStoragePath(r)
        file_path == FilePath(storage_path, template_name)
    IN  IF file_path \in DOMAIN fs
        THEN [found |-> TRUE,
              files |-> [q \in DOMAIN fs \ {file_path} |-> fs[q]]]
        ELSE [found |-> FALSE, files |-> fs]

\* _delete_template_file(template_name) (defined when ~ResolveFails(r)).
DeleteFile(r, fs, template_name) ==
    LET storage_path == GetStoragePath(r)
        safe_name == SanitizeFilename(template_name)
        file_path == FilePath(storage_path, safe_name)
    IN  IF file_path \in DOMAIN fs
        THEN [found |-> TRUE,
              files |-> [q \in DOMAIN fs \ {file_path} |-> fs[q]]]
        ELSE [found |-> FALSE, files |-> fs]

---------------------------------------------------------------------------
(* The change-detection cache: a dict, kept in insertion order *)

\* json.dumps(entries, sort_keys=True).  An entry is a JSON object given
\* as the sequence of its <<key, value>> pairs in the order of the request
\* text; the canonical text has each entry's pairs sorted by key.
KeyOrder == <<"a", "b", "c">>

KeyRank(key) == CHOOSE i \in 1..Len(KeyOrder) : KeyOrder[i] = key

RECURSIVE InsertSorted(_, _)
InsertSorted(pair, s) ==
    IF s = <<>> THEN <<pair>>
    ELSE IF KeyRank(pair[1]) <= KeyRank(Head(s)[1]) THEN <<pair>> \o s
    ELSE <<Head(s)>> \o InsertSorted(pair, Tail(s))

RECURSIVE SortKeys(_)
SortKeys(entry) ==
    IF entry = <<>> THEN <<>>
    ELSE InsertSorted(Head(entry), SortKeys(Tail(entry)))

JsonDumpsSorted(entries) == [i \in 1..Len(entries) |-> SortKeys(entries[i])]

\* new_hash (nodes.py:437-438)
EntriesHash(entries) == MD5(JsonDumpsSorted(entries))

\* template_name in _template_state
CacheHas(cache, name) == \E i \in 1..Len(cache) : cache[i].name = name

\* _template_state[template_name]
CacheGet(cache, name) ==
    cache[CHOOSE i \in 1..Len(cache) : cache[i].name = name].hash

\* CacheSet with the key moved to the end of the order on every store.
CacheSetMoveToEnd(cache, name, hash) ==
    LET kept == { i \in 1..Len(cache) : cache[i].name # name }
        Others[n \in 0..Len(cache)] ==
            IF n = 0 THEN <<>>
            ELSE IF n \in kept THEN Append(Others[n - 1], cache[n])
            ELSE Others[n - 1]
    IN  Append(Others[Len(cache)], [name |-> name, hash |-> hash])

\* _template_state[template_name] = new_hash: a key that is present keeps
\* its place in the order, a new key goes to the end.
CacheSet(cache, name, hash) ==
    IF CacheHas(cache, name)
    THEN [i \in 1..Len(cache) |->
            IF cache[i].name = name THEN [name |-> name, hash |-> hash]
            ELSE cache[i]]
    ELSE Append(cache, [name |-> name, hash |-> hash])

\* int(MAX_TEMPLATE_STATE_ENTRIES * 0.8): 200 * 0.8 is 160.0 exactly.
EvictKeep == (MAX_TEMPLATE_STATE_ENTRIES * 8) \div 10

\* EvictOldest removing a fifth of the cap ("oldest 20%") whatever the count.
EvictFifthOfCap(cache) ==
    IF Len(cache) > MAX_TEMPLATE_STATE_ENTRIES
    THEN SubSeq(cache, MAX_TEMPLATE_STATE_ENTRIES \div 5 + 1, Len(cache))
    ELSE cache

\* _evict_oldest_template_state()
EvictOldest(cache) ==
    IF Len(cache) > MAX_TEMPLATE_STATE_ENTRIES
    THEN LET to_remove == Len(cache) - EvictKeep
         IN  SubSeq(cache, to_remove + 1, Len(cache))
    ELSE cache

\* Unchanged with the comparison of the hashes left out.
UnchangedAnyHash(cache, name, new_hash) == CacheHas(cache, name)

\* Unchanged with the cache looked up under the sanitized name.
UnchangedSafeName(cache, name, new_hash) ==
    /\ CacheHas(cache, SanitizeFilename(name))
    /\ CacheGet(cache, SanitizeFilename(name)) = new_hash

\* The test of nodes.py:441-442: the cached hash of the name is new_hash.
Unchanged(cache, name, new_hash) ==
    CacheHas(cache, name) /\ CacheGet(cache, name) = new_hash

---------------------------------------------------------------------------
(* The HTTP handlers.  Each is one step: a handler is suspended only at    *)
(* its await request.json(), before it reads or writes any state.  A body  *)
(* with malformed = TRUE is one request.json() raises on, or one that is   *)
(* no JSON object, so that data.get raises: both end in the handler's      *)
(* except clause.  status "exception" is an exception that leaves the      *)
(* handler uncaught.                                                       *)

ErrorResponse(message) == [status |-> "error", message |-> message]

\* A handler that runs as soon as its request arrives, the body at hand:
\* the request is never among the suspended ones.
Served(Handler) == Handler /\ UNCHANGED awaiting

\* GET /alexandria/storage-dir
GetStorageDir ==
    /\ last' = [op |-> "get_storage_dir", resp |->
                  IF ResolveFails(current_storage_dir)
                  THEN [status |-> "exception", message |-> "TypeError"]
                  ELSE LET storage_path == GetStoragePath(current_storage_dir)
                       IN  [status |-> "ok",
                            storage_directory |-> storage_path,
                            exists |-> storage_path \in dirs]]
    /\ UNCHANGED <<current_storage_dir, template_state, dirs, files>>

\* POST /alexandria/storage-dir
SetStorageDir(body) ==
    IF body.malformed THEN
        /\ last' = [op |-> "set_storage_dir", resp |-> ErrorResponse("body")]
        /\ UNCHANGED <<current_storage_dir, template_state, dirs, files>>
    ELSE
        LET new_dir == Get(body.data, "storage_directory",
                           RootStr(DEFAULT_STORAGE_DIR))
        IN  /\ current_storage_dir' = new_dir
            /\ IF ResolveFails(new_dir) THEN
                   /\ last' = [op |-> "set_storage_dir",
                               resp |-> ErrorResponse("TypeError")]
                   /\ UNCHANGED dirs
               ELSE IF MkdirFails(GetStoragePath(new_dir)) THEN
                   /\ last' = [op |-> "set_storage_dir",
                               resp |-> ErrorResponse("mkdir")]
                   /\ UNCHANGED dirs
               ELSE
                   /\ dirs' = dirs \cup {GetStoragePath(new_dir)}
                   /\ last' = [op |-> "set_storage_dir",
                               resp |-> [status |-> "ok",
                                         storage_directory |->
                                             GetStoragePath(new_dir)]]
            /\ UNCHANGED <<template_state, files>>

\* GET /alexandria/templates
GetTemplates ==
    /\ last' = [op |-> "get_templates", resp |->
                  IF ResolveFails(current_storage_dir)
                  THEN ErrorResponse("TypeError")
                  ELSE LET templates ==
                             LoadFromDirectory(current_storage_dir, dirs, files)
                       IN  [status |-> "ok",
                            templates |-> templates,
                            count |-> Cardinality(templates),
                            storage_directory |->
                                GetStoragePath(current_storage_dir)]]
    /\ UNCHANGED <<current_storage_dir, template_state, dirs, files>>

\* Stamp with updatedAt set on every save.
StampAlways(template_data, now) ==
    LET t1 == Put(template_data, "updatedAt", now)
    IN  IF "createdAt" \notin DOMAIN t1
        THEN Put(t1, "createdAt", t1["updatedAt"]) ELSE t1

\* The stamping of nodes.py:331-335 at clock reading now.
Stamp(template_data, now) ==
    LET t1 == IF "updatedAt" \notin DOMAIN template_data
              THEN Put(template_data, "updatedAt", now) ELSE template_data
    IN  IF "createdAt" \notin DOMAIN t1
        THEN Put(t1, "createdAt", t1["updatedAt"]) ELSE t1

\* POST /alexandria/templates/save; now is datetime.now().
SaveTemplateToFile(body, now) ==
    IF body.malformed THEN
        /\ last' = [op |-> "templates_save", resp |-> ErrorResponse("body")]
        /\ UNCHANGED <<current_storage_dir, template_state, dirs, files>>
    ELSE IF Get(body.data, "name", <<>>) = <<>> THEN
        /\ last' = [op |-> "templates_save",
                    resp |-> ErrorResponse("Template name is required")]
        /\ UNCHANGED <<current_storage_dir, template_state, dirs, files>>
    ELSE
        LET template_data == Stamp(body.data, now)
            saved == SaveToFile(current_storage_dir, dirs, files, template_data)
        IN  /\ dirs' = saved.dirs
            /\ files' = saved.files
            /\ last' = [op |-> "templates_save",
                        resp |-> IF saved.raised THEN ErrorResponse("save")
                                 ELSE [status |-> "ok",
                                       file_path |-> saved.file_path]]
            /\ UNCHANGED <<current_storage_dir, template_state>>

\* POST /alexandria/templates/delete
DeleteTemplateFile(body) ==
    IF body.malformed THEN
        /\ last' = [op |-> "templates_delete", resp |-> ErrorResponse("body")]
        /\ UNCHANGED <<current_storage_dir, template_state, dirs, files>>
    ELSE IF Get(body.data, "name", <<>>) = <<>> THEN
        /\ last' = [op |-> "templates_delete",
                    resp |-> ErrorResponse("Template name is required")]
        /\ UNCHANGED <<current_storage_dir, template_state, dirs, files>>
    ELSE IF ResolveFails(current_storage_dir) THEN
        /\ last' = [op |-> "templates_delete",
                    resp |-> ErrorResponse("TypeError")]
        /\ UNCHANGED <<current_storage_dir, template_state, dirs, files>>
    ELSE
        LET deleted == DeleteFile(current_storage_dir, files, body.data["name"])
        IN  /\ files' = deleted.files
            /\ last' = [op |-> "templates_delete", resp |-> IF deleted.found
                                 THEN [status |-> "ok", message |-> "deleted"]
                                 ELSE ErrorResponse("not found")]
            /\ UNCHANGED <<current_storage_dir, template_state, dirs>>

\* The loop of nodes.py:397-400 from the i-th submitted template on; names
\* is file_template_names, computed once before the loop.
RECURSIVE SyncLoop(_, _, _, _, _, _, _)
SyncLoop(r, browser_templates, i, names, ds, fs, saved_count) ==
    IF i > Len(browser_templates) THEN
        [raised |-> FALSE, dirs |-> ds, files |-> fs,
         saved_count |-> saved_count]
    ELSE
        LET template == browser_templates[i] IN
        IF Get(template, "name", <<>>) # <<>> /\ template["name"] \notin names
        THEN LET saved == SaveToFile(r, ds, fs, template) IN
             IF saved.raised
             THEN [raised |-> TRUE, dirs |-> saved.dirs, files |-> saved.files,
                   saved_count |-> saved_count]
             ELSE SyncLoop(r, browser_templates, i + 1, names,
                           saved.dirs, saved.files, saved_count + 1)
        ELSE SyncLoop(r, browser_templates, i + 1, names, ds, fs, saved_count)

\* POST /alexandria/templates/sync
SyncTemplates(body) ==
    IF body.malformed THEN
        /\ last' = [op |-> "templates_sync", resp |-> ErrorResponse("body")]
        /\ UNCHANGED <<current_storage_dir, template_state, dirs, files>>
    ELSE IF ResolveFails(current_storage_dir) THEN
        /\ last' = [op |-> "templates_sync",
                    resp |-> ErrorResponse("TypeError")]
        /\ UNCHANGED <<current_storage_dir, template_state, dirs, files>>
    ELSE
        LET browser_templates == Get(body.data, "templates", <<>>)
            file_templates ==
                LoadFromDirectory(current_storage_dir, dirs, files)
            file_template_names == { t["name"] : t \in file_templates }
            done == SyncLoop(current_storage_dir, browser_templates, 1,
                             file_template_names, dirs, files, 0)
            all_templates ==
                LoadFromDirectory(current_storage_dir, done.dirs, done.files)
        IN  /\ dirs' = done.dirs
            /\ files' = done.files
            /\ last' = [op |-> "templates_sync",
                        resp |-> IF done.raised THEN ErrorResponse("save")
                                 ELSE [status |-> "ok",
                                       templates |-> all_templates,
                                       saved_count |-> done.saved_count,
                                       total_count |->
                                           Cardinality(all_templates)]]
            /\ UNCHANGED <<current_storage_dir, template_state>>

\* POST /alexandria/save; now is datetime.now().
SaveTemplate(body, now) ==
    IF body.malformed THEN
        /\ last' = [op |-> "save", resp |-> ErrorResponse("body")]
        /\ UNCHANGED <<current_storage_dir, template_state, dirs, files>>
    ELSE
        LET template_name == Get(body.data, "template_name", Unnamed)
            entries == Get(body.data, "entries", <<>>)
            new_hash == EntriesHash(entries)
        IN
        IF entries = <<>> THEN
            /\ last' = [op |-> "save",
                        resp |-> ErrorResponse("No entries provided")]
            /\ UNCHANGED <<current_storage_dir, template_state, dirs, files>>
        ELSE IF Unchanged(template_state, template_name, new_hash) THEN
            /\ last' = [op |-> "save", resp |-> [status |-> "skipped",
                                  message |-> "No changes detected"]]
            /\ UNCHANGED <<current_storage_dir, template_state, dirs, files>>
        ELSE
            LET template_data == [name |-> template_name,
                                  entries |-> entries,
                                  hash |-> new_hash,
                                  updatedAt |-> now]
                saved == SaveToFile(current_storage_dir, dirs, files,
                                    template_data)
            IN  /\ template_state' =
                       EvictOldest(CacheSet(template_state, template_name,
                                            new_hash))
                /\ dirs' = saved.dirs
                /\ files' = saved.files
                /\ last' = [op |-> "save",
                            resp |-> IF saved.raised THEN ErrorResponse("save")
                                     ELSE [status |-> "ok",
                                           template_name |-> template_name,
                                           hash |-> new_hash,
                                           entry_count |-> Len(entries),
                                           file_path |-> saved.file_path]]
                /\ UNCHANGED current_storage_dir

\* Execute leaving a root that was set alone when path_override is off.
ExecuteKeepsRoot(inp, now) ==
    LET actual_name == IF inp.name_override THEN inp.override_name
                       ELSE inp.template_name
        root == IF inp.path_override /\ inp.custom_path # <<>>
                THEN RootStr(inp.custom_path)
                ELSE IF Truthy(current_storage_dir) THEN current_storage_dir
                ELSE RootStr(DEFAULT_STORAGE_DIR)
        storage_path == GetStoragePath(root)
    IN  /\ current_storage_dir' = root
        /\ dirs' = IF MkdirFails(storage_path) THEN dirs
                   ELSE dirs \cup {storage_path}
        /\ last' = [op |-> "execute",
                    resp |-> [status |-> "returned",
                              template_name |-> actual_name,
                              timestamp |-> now,
                              event |-> [template_name |-> actual_name,
                                         timestamp |-> now,
                                         storage_directory |-> storage_path]]]
        /\ UNCHANGED <<template_state, files>>

\* AlexandriaSaveNode.execute; now is datetime.now().
Execute(inp, now) ==
    LET actual_name == IF inp.name_override THEN inp.override_name
                       ELSE inp.template_name
        storage_dir == IF inp.path_override /\ inp.custom_path # <<>>
                       THEN inp.custom_path ELSE DEFAULT_STORAGE_DIR
        storage_path == IF IsAbsolute(storage_dir) THEN storage_dir
                        ELSE Cwd \o storage_dir
    IN  /\ current_storage_dir' = RootStr(storage_dir)
        /\ dirs' = IF MkdirFails(storage_path) THEN dirs
                   ELSE dirs \cup {storage_path}
        /\ last' = [op |-> "execute", resp |-> [status |-> "returned",
                              template_name |-> actual_name,
                              timestamp |-> now,
                              event |->
                                [template_name |-> actual_name,
                                 timestamp |-> now,
                                 storage_directory |->
                                     GetStoragePath(RootStr(storage_dir))]]]
        /\ UNCHANGED <<template_state, files>>

---------------------------------------------------------------------------
(* Requests *)

Malformed == [malformed |-> TRUE, data |-> ("malformed" :> TRUE)]
Body(data) == [malformed |-> FALSE, data |-> data]

\* A JSON object with no key.
EmptyObject == [key \in {} |-> TRUE]

\* The objects that carry key with one of values.
Field(key, values) == { key :> v : v \in values }

\* The same, and the object in which key is absent.
Optional(key, values) == {EmptyObject} \cup Field(key, values)

E1 == << << <<"a", 1>>, <<"b", 2>> >> >>
E1r == << << <<"b", 2>>, <<"a", 1>> >> >>
E2 == << << <<"a", 2>> >> >>

---------------------------------------------------------------------------
(* The whole extension: every handler and the save-trigger node, over the  *)
(* default storage directory and roots that do not resolve or cannot be    *)
(* created.  "/" and "_" are two names of one file, " " is a name whose    *)
(* sanitized form is empty.                                                *)

Now == {1}

Names == {<<>>, <<"/">>, <<"_">>, <<" ">>}

Uncreatable == NotADirectory \o <<"x">>

SetStorageDirBodies ==
    {Malformed}
    \cup { Body(d) : d \in Optional("storage_directory", {RootNum}) }

SaveTemplateToFileBodies ==
    {Malformed}
    \cup { Body(n @@ e) : n \in Optional("name", Names),
                          e \in Field("entries", {E1}) }

DeleteBodies == {Malformed} \cup { Body(d) : d \in Optional("name", Names) }

SyncedTemplates ==
    { n @@ e : n \in Field("name", Names \ {<<>>}),
               e \in Field("entries", {E2}) }

MaxSyncLen == 2

Lists(S, n) == UNION { [1..k -> S] : k \in 0..n }

SyncBodies ==
    {Malformed, Body(EmptyObject)}
    \cup { Body("templates" :> ts) : ts \in Lists(SyncedTemplates, MaxSyncLen) }

SaveBodies ==
    {Malformed}
    \cup { Body(n @@ e) : n \in Field("template_name", {<<"_">>}),
                          e \in Optional("entries", {<<>>, E1, E2}) }

ExecuteInputs ==
    [template_name : {<<"_">>}, name_override : BOOLEAN,
     override_name : {<<"/">>}, path_override : BOOLEAN,
     custom_path : {Uncreatable}]

Init ==
    /\ current_storage_dir = RootNone
    /\ template_state = <<>>
    /\ dirs = {}
    /\ files = EmptyObject
    /\ last = [op |-> "init", resp |-> [status |-> "none"]]
    /\ awaiting = {}

Next ==
    \/ Served(GetStorageDir)
    \/ \E body \in SetStorageDirBodies : Served(SetStorageDir(body))
    \/ Served(GetTemplates)
    \/ \E body \in SaveTemplateToFileBodies, now \in Now :
           Served(SaveTemplateToFile(body, now))
    \/ \E body \in DeleteBodies : Served(DeleteTemplateFile(body))
    \/ \E body \in SyncBodies : Served(SyncTemplates(body))
    \/ \E body \in SaveBodies, now \in Now : Served(SaveTemplate(body, now))
    \/ \E inp \in ExecuteInputs, now \in Now : Served(Execute(inp, now))

Spec == Init /\ [][Next]_vars

---------------------------------------------------------------------------
(* The save endpoint and its cache, with what changes the disk and the     *)
(* root under it: two template names, entries that differ in key order     *)
(* only (E1, E1r) or in content (E2), deletes, listings and root changes.  *)

SaveNames == {<<"_">>, <<" ">>}

CachedSaveBodies ==
    {Malformed}
    \cup { Body(n @@ e) : n \in Field("template_name", SaveNames),
                          e \in Optional("entries", {<<>>, E1, E1r, E2}) }

CachedRootBodies ==
    { Body(d) : d \in Optional("storage_directory",
                               {RootNum, RootStr(Uncreatable)}) }

CachedDeleteBodies == { Body(d) : d \in Field("name", SaveNames) }

NextSave ==
    \/ \E body \in CachedSaveBodies, now \in Now :
           Served(SaveTemplate(body, now))
    \/ \E body \in CachedRootBodies : Served(SetStorageDir(body))
    \/ \E body \in CachedDeleteBodies : Served(DeleteTemplateFile(body))
    \/ Served(GetTemplates)

SpecSave == Init /\ [][NextSave]_vars

\* The requests of bodies that reach the hash computation of the save
\* endpoint: a JSON object with entries that are not empty.
Hashed(bodies) ==
    { b \in bodies : ~b.malformed /\ Get(b.data, "entries", <<>>) # <<>> }

SavedName(body) == Get(body.data, "template_name", Unnamed)

SavedHash(body) == EntriesHash(body.data["entries"])

\* The cache holds hash for name.
CachedWith(name, hash) ==
    \E i \in 1..Len(template_state) :
        template_state[i] = [name |-> name, hash |-> hash]

\* The storage root resolves to a directory that exists or can be created.
RootWritable ==
    /\ current_storage_dir.k \in {"none", "str"}
    /\ ~IsPrefix(NotADirectory, GetStoragePath(current_storage_dir))

\* The response to the last request is "ok" to a save of name with hash.
SavedOk(name, hash) ==
    /\ last.op = "save"
    /\ last.resp.status = "ok"
    /\ last.resp.template_name = name
    /\ last.resp.hash = hash

C6_SkipChangesNothing ==
    [][\A body \in Hashed(CachedSaveBodies), now \in Now :
         (SaveTemplate(body, now)
            /\ CachedWith(SavedName(body), SavedHash(body))) =>
           /\ last'.resp.status = "skipped"
           /\ UNCHANGED <<template_state, dirs, files, current_storage_dir>>]_vars

\* A save was skipped while the file of its name was not on disk.
C6_Witness ==
    /\ last.op = "save"
    /\ last.resp.status = "skipped"
    /\ template_state # <<>>
    /\ files = EmptyObject

---------------------------------------------------------------------------
(* The cache at its cap: saves of the names "1", "2", "3", ... in turn,    *)
(* each a name the cache has not held, and saves that repeat or change the *)
(* entries of the oldest name the cache holds.                             *)

MaxCacheNames == 245

Digits == <<"0", "1", "2", "3", "4", "5", "6", "7", "8", "9">>

\* The decimal numeral of k, the k-th template name.
RECURSIVE Numeral(_)
Numeral(k) ==
    IF k < 10 THEN <<Digits[k + 1]>>
    ELSE Append(Numeral(k \div 10), Digits[(k % 10) + 1])

\* The k-th name is the one to insert next: the names before it were
\* inserted, in turn, and it was not.
IsNextName(k) ==
    IF template_state = <<>> THEN k = 1
    ELSE k > 1 /\ template_state[Len(template_state)].name = Numeral(k - 1)

NextCache ==
    \/ \E k \in 1..MaxCacheNames, now \in Now :
           /\ IsNextName(k)
           /\ Served(SaveTemplate(Body(("template_name" :> Numeral(k))
                                       @@ ("entries" :> E1)), now))
    \/ \E e \in {E1, E2}, now \in Now :
           /\ template_state # <<>>
           /\ Served(SaveTemplate(Body(("template_name" :>
                                           template_state[1].name)
                                       @@ ("entries" :> e)), now))

SpecCache == Init /\ [][NextCache]_vars

\* C2: whenever an insertion makes the count of the cache exceed the cap
\* (200), the eviction pass that follows leaves exactly floor(200 * 0.8) =
\* 160 entries, the 160 inserted last: the count - 160 oldest in insertion
\* order are the ones removed.
C2_EvictionKeepsNewest ==
    [][\A k \in 1..MaxCacheNames, now \in Now :
         LET body == Body(("template_name" :> Numeral(k))
                          @@ ("entries" :> E1))
             inserted == Append(template_state,
                                [name |-> Numeral(k), hash |-> SavedHash(body)])
         IN  (/\ IsNextName(k)
              /\ SaveTemplate(body, now)
              /\ Len(inserted) > 200) =>
               /\ Len(template_state') = 160
               /\ \A i \in 1..160 :
                      template_state'[i] = inserted[Len(inserted) - 160 + i]]_vars

\* The 201st distinct name was inserted into a cache that started empty:
\* the cache holds the names "42" to "201".
C2_Witness ==
    /\ Len(template_state) = 160
    /\ template_state[1].name = <<"4", "2">>
    /\ template_state[160].name = <<"2", "0", "1">>
    /\ last.resp.status = "ok"

---------------------------------------------------------------------------
(* Claims about the file store, under Spec *)

\* The bodies among bodies that carry a JSON object with a name that is
\* not empty.
Named(bodies) ==
    { b \in bodies : ~b.malformed /\ Get(b.data, "name", <<>>) # <<>> }

\* What load_all() returns in the current state.
OnDisk == LoadFromDirectory(current_storage_dir, dirs, files)

\* The entries of the on-disk templates of the name, among templates.
EntriesOf(templates, name) ==
    { Get(t, "entries", <<>>) : t \in { u \in templates : u["name"] = name } }

\* The names the templates submitted with body carry.
Submitted(body) ==
    LET ts == Get(body.data, "templates", <<>>)
    IN  { Get(ts[i], "name", <<>>) : i \in 1..Len(ts) }

\* C3: a POST /alexandria/templates/sync that submits a template of a name
\* N that an on-disk template carries when the call starts leaves the
\* on-disk entries of N as they were, and saved_count counts at most the
\* submitted templates of other names.
C3_SyncNeverClobbers ==
    [][\A body \in SyncBodies :
         (/\ ~body.malformed
          /\ ~ResolveFails(current_storage_dir)
          /\ SyncTemplates(body)) =>
           \A t \in OnDisk :
               t["name"] \in Submitted(body) =>
                 /\ EntriesOf(OnDisk', t["name"]) = EntriesOf(OnDisk, t["name"])
                 /\ last'.resp.status = "ok" =>
                      last'.resp.saved_count <=
                          LET ts == body.data["templates"]
                          IN  Cardinality({ i \in 1..Len(ts) :
                                              ts[i]["name"] # t["name"] })]_vars

\* C4: after a save(t) of a template t with a name that is not empty, made
\* by POST /alexandria/templates/save or POST /alexandria/save, a load_all()
\* with nothing in between returns an entry with t's name and entries.
C4_SaveLoadRoundTrip ==
    /\ [][\A body \in Named(SaveTemplateToFileBodies), now \in Now :
            (SaveTemplateToFile(body, now) /\ last'.resp.status = "ok") =>
              \E t \in OnDisk' :
                  /\ t["name"] = body.data["name"]
                  /\ t["entries"] = body.data["entries"]]_vars
    /\ [][\A body \in Hashed(SaveBodies), now \in Now :
            (SaveTemplate(body, now) /\ last'.resp.status = "ok") =>
              \E t \in OnDisk' :
                  /\ t["name"] = SavedName(body)
                  /\ t["entries"] = body.data["entries"]]_vars

\* A template named "/" was saved, to the file "_.json".
C4_Witness ==
    /\ last.op = "templates_save"
    /\ last.resp.status = "ok"
    /\ \E t \in OnDisk : t["name"] = <<"/">> /\ t["_file_path"][2] = <<"_">>

\* The file of the name in the storage directory of the current root.
FileOf(name) ==
    FilePath(GetStoragePath(current_storage_dir), SanitizeFilename(name))

\* C5: delete(name) for a name whose file is absent returns false (the
\* endpoint answers "error", not found) and changes no file, so that every
\* later call does the same; for a name whose file exists it removes that
\* file and no other and returns true (the endpoint answers "ok"), and a
\* delete(name) repeated at once returns false.
C5_DeleteIdempotent ==
    [][\A body \in Named(DeleteBodies) :
         (~ResolveFails(current_storage_dir) /\ DeleteTemplateFile(body)) =>
           LET name == body.data["name"] IN
           IF FileOf(name) \in DOMAIN files
           THEN /\ last'.resp = [status |-> "ok", message |-> "deleted"]
                /\ DOMAIN files' = DOMAIN files \ {FileOf(name)}
                /\ \A fp \in DOMAIN files' : files'[fp] = files[fp]
                /\ ~DeleteFile(current_storage_dir', files', name).found
           ELSE /\ last'.resp = [status |-> "error", message |-> "not found"]
                /\ UNCHANGED <<files, dirs>>]_vars

\* A delete found its file and removed it; another file is left.
C5_Witness ==
    /\ last.op = "templates_delete"
    /\ last.resp.status = "ok"
    /\ files # EmptyObject

\* C9: a request with a name whose sanitized form is empty is answered
\* "error" by POST templates/save, templates/delete, templates/sync and
\* /alexandria/save, and leaves the files as they were.
C9_EmptySanitizedNameIsError ==
    /\ [][\A body \in Named(SaveTemplateToFileBodies), now \in Now :
            (/\ SanitizeFilename(body.data["name"]) = <<>>
             /\ SaveTemplateToFile(body, now)) =>
              (last'.resp.status = "error" /\ UNCHANGED files)]_vars
    /\ [][\A body \in Named(DeleteBodies) :
            (/\ SanitizeFilename(body.data["name"]) = <<>>
             /\ DeleteTemplateFile(body)) =>
              (last'.resp.status = "error" /\ UNCHANGED files)]_vars
    /\ [][\A body \in SyncBodies :
            (/\ ~body.malformed
             /\ \E name \in Submitted(body) :
                    name # <<>> /\ SanitizeFilename(name) = <<>>
             /\ SyncTemplates(body)) =>
              (last'.resp.status = "error" /\ UNCHANGED files)]_vars
    /\ [][\A body \in Hashed(SaveBodies), now \in Now :
            (/\ SanitizeFilename(SavedName(body)) = <<>>
             /\ SaveTemplate(body, now)) =>
              (last'.resp.status = "error" /\ UNCHANGED files)]_vars

\* C10: no handler lets an exception out: every failure is answered with
\* status "error".
C10_NoExceptionEscapes == last.resp.status # "exception"

---------------------------------------------------------------------------
(* Changes of the storage root: two directories, the default one and       *)
(* "custom" (given relative or absolute), one template name, and every     *)
(* handler and the save-trigger node.                                      *)

Custom == <<"custom">>

RootedRootBodies ==
    { Body(d) : d \in Optional("storage_directory",
                               {RootNone, RootStr(<<>>), RootStr(Custom),
                                RootStr(Cwd \o Custom)}) }

RootedTemplate == ("name" :> <<"_">>) @@ ("entries" :> E1)

RootedSyncBodies ==
    { Body("templates" :> ts) : ts \in Lists({RootedTemplate}, MaxSyncLen) }

RootedSaveBody == Body(("template_name" :> <<"_">>) @@ ("entries" :> E2))

RootedExecuteInputs ==
    [template_name : {<<"_">>}, name_override : {FALSE},
     override_name : {<<"/">>}, path_override : BOOLEAN,
     custom_path : {<<>>, Custom}]

NextRoots ==
    \/ Served(GetStorageDir)
    \/ \E body \in RootedRootBodies : Served(SetStorageDir(body))
    \/ Served(GetTemplates)
    \/ \E now \in Now : Served(SaveTemplateToFile(Body(RootedTemplate), now))
    \/ Served(DeleteTemplateFile(Body(RootedTemplate)))
    \/ \E body \in RootedSyncBodies : Served(SyncTemplates(body))
    \/ \E now \in Now : Served(SaveTemplate(RootedSaveBody, now))
    \/ \E inp \in RootedExecuteInputs, now \in Now : Served(Execute(inp, now))

SpecRoots == Init /\ [][NextRoots]_vars

\* The directory the root value stands for: the default directory under
\* the working directory when the root is unset or empty, and the
\* directory "custom" under the working directory when the root names it,
\* relative or absolute.
ActiveDir ==
    CASE current_storage_dir \in {RootNone, RootStr(<<>>),
                                  RootStr(<<"alexandria_templates">>)} ->
             <<"/", "cwd", "alexandria_templates">>
      [] current_storage_dir \in {RootStr(<<"custom">>),
                                  RootStr(<<"/", "cwd", "custom">>)} ->
             <<"/", "cwd", "custom">>

\* The files and directories a step creates, writes or removes.
Touched ==
    { fp \in DOMAIN files \cup DOMAIN files' :
        \/ fp \notin DOMAIN files
        \/ fp \notin DOMAIN files'
        \/ files[fp] # files'[fp] }

InDir(fs, dir) == { fp \in DOMAIN fs : fp[1] = dir }

\* C7: every operation works on the directory of the root as it is when
\* the operation runs (for an operation that sets the root: as it has set
\* it): it creates, writes and removes files there and nowhere else, and
\* what it answers (the directory, whether it exists, the path written,
\* the templates listed, whether the file to delete was found) is read
\* from there and not from the directory of an earlier root.
C7_RootResolvedPerOperation ==
    [][LET dir == ActiveDir'
           resp == last'.resp
       IN  /\ \A fp \in Touched : fp[1] = dir
           /\ dirs \subseteq dirs' /\ dirs' \ dirs \subseteq {dir}
           /\ "storage_directory" \in DOMAIN resp =>
                  resp.storage_directory = dir
           /\ "exists" \in DOMAIN resp => (resp.exists <=> dir \in dirs)
           /\ "file_path" \in DOMAIN resp =>
                  (resp.file_path[1] = dir /\ resp.file_path \in DOMAIN files')
           /\ "templates" \in DOMAIN resp =>
                  { t["_file_path"] : t \in resp.templates } = InDir(files', dir)
           /\ "event" \in DOMAIN resp => resp.event.storage_directory = dir
           /\ last'.op = "templates_delete" =>
                  (resp.status = "ok" <=> InDir(files, dir) # {})]_vars

\* The root was changed while the directory of the earlier root held a
\* file, and a template was then saved under the new root.
C7_Witness ==
    /\ current_storage_dir = RootStr(<<"custom">>)
    /\ last.op = "templates_save"
    /\ last.resp.status = "ok"
    /\ InDir(files, <<"/", "cwd", "alexandria_templates">>) # {}
    /\ InDir(files, <<"/", "cwd", "custom">>) # {}

---------------------------------------------------------------------------
(* The timestamps of POST /alexandria/templates/save: bodies with and      *)
(* without an updatedAt and a createdAt of the past (time 0), saved at the *)
(* clock readings 1..MaxTime.                                              *)

MaxTime == 1

StampTimes == 1..MaxTime

StampBodies ==
    { Body(n @@ e @@ u @@ c) :
        n \in Optional("name", {<<"/">>, <<"_">>, <<" ">>, <<"a">>}),
        e \in Field("entries", {E1}),
        u \in Optional("updatedAt", {0}),
        c \in Optional("createdAt", {0}) }

NextStamp ==
    \E body \in StampBodies, now \in StampTimes :
        Served(SaveTemplateToFile(body, now))

SpecStamp == Init /\ [][NextStamp]_vars

\* The template a successful save has just written.
Stored == files'[last'.resp.file_path].obj

---------------------------------------------------------------------------
(* Names and files: four names of the one file "a_b.json" ("a/b", "a\b",   *)
(* "a_b" and " a*b") and the name "a", saved through both save endpoints   *)
(* under the default directory, and deleted.                               *)

SlashName == <<"a", "/", "b">>

PlainName == <<"a", "_", "b">>

CollidingNames ==
    {SlashName, <<"a", "\\", "b">>, PlainName, <<" ", "a", "*", "b">>}

NamedTemplateBodies ==
    { Body(n @@ e) : n \in Field("name", CollidingNames \cup {<<"a">>}),
                     e \in Field("entries", {E1}) }

NamedSaveBodies ==
    { Body(n @@ e) : n \in Field("template_name", {SlashName, PlainName}),
                     e \in Field("entries", {E2}) }

NamedDeleteBodies == { Body(d) : d \in Field("name", {SlashName, <<"a">>}) }

NextNames ==
    \/ \E body \in NamedTemplateBodies, now \in Now :
           Served(SaveTemplateToFile(body, now))
    \/ \E body \in NamedSaveBodies, now \in Now :
           Served(SaveTemplate(body, now))
    \/ \E body \in NamedDeleteBodies : Served(DeleteTemplateFile(body))
    \/ Served(GetTemplates)

SpecNames == Init /\ [][NextNames]_vars

\* The stem of the file a name stands for: each reserved character gives
\* "_", the blanks at the ends are dropped.
StemOf(name) ==
    CASE name \in CollidingNames -> <<"a", "_", "b">>
      [] name = <<"a">> -> <<"a">>

\* The effect of a save of the template t under the name on the files: the
\* one file <stem>.json, directly in the storage directory, holds t and
\* nothing else, and a file that was there before under that stem is
\* replaced, not joined by a second one.
SavedAs(name, t, file_path) ==
    LET fp == <<ActiveDir, StemOf(name)>> IN
    /\ file_path = fp
    /\ Touched \subseteq {fp}
    /\ files'[fp] = [valid |-> TRUE, obj |-> t]
    /\ \A i \in 1..Len(fp[2]) : fp[2][i] \notin {"/", "\\"}
    /\ Cardinality(InDir(files', ActiveDir)) =
           Cardinality(InDir(files, ActiveDir) \cup {fp})

\* C11: a save of a template writes exactly the file <sanitized name>.json
\* directly in the resolved storage directory ("a/b" gives a_b.json, no
\* subdirectory); after it that file holds the whole template just saved
\* and nothing of a template of another name with the same sanitized name
\* that was saved there before.
C11_SanitizedNameIsIdentity ==
    /\ [][\A body \in NamedTemplateBodies, now \in Now :
            (SaveTemplateToFile(body, now) /\ last'.resp.status = "ok") =>
              SavedAs(body.data["name"],
                      body.data @@ ("updatedAt" :> now) @@ ("createdAt" :> now),
                      last'.resp.file_path)]_vars
    /\ [][\A body \in NamedSaveBodies, now \in Now :
            (SaveTemplate(body, now) /\ last'.resp.status = "ok") =>
              SavedAs(SavedName(body),
                      [name |-> SavedName(body),
                       entries |-> body.data["entries"],
                       hash |-> SavedHash(body),
                       updatedAt |-> now],
                      last'.resp.file_path)]_vars

\* "a/b" was saved through POST /alexandria/save, to a_b.json, and " a*b"
\* through POST /alexandria/templates/save after it: a_b.json, the one
\* file, holds " a*b".
C11_Witness ==
    /\ CacheHas(template_state, SlashName)
    /\ last.op = "templates_save"
    /\ last.resp.status = "ok"
    /\ DOMAIN files = {<<Cwd \o DEFAULT_STORAGE_DIR, PlainName>>}
    /\ \A fp \in DOMAIN files :
           files[fp].obj["name"] = <<" ", "a", "*", "b">>

---------------------------------------------------------------------------
(* The sanitizer alone: it is applied to a name, and to its own result.    *)
(* The names are the strings of at most MaxNameLen characters over the     *)
(* nine reserved characters, two kinds of blank, a letter and "_".         *)

MaxNameLen == 3

NameChars ==
    { invalid_chars[i] : i \in 1..Len(invalid_chars) } \cup {" ", "\t", "a", "_"}

NameStrings == UNION { [1..n -> NameChars] : n \in 0..MaxNameLen }

InitSanitize ==
    /\ current_storage_dir = RootNone
    /\ template_state = <<>>
    /\ dirs = {}
    /\ files = EmptyObject
    /\ awaiting = {}
    /\ \E name \in NameStrings :
           last = [op |-> "name",
                   resp |-> [name |-> name, safe_name |-> name, applied |-> 0]]

\* safe_name = _sanitize_filename(...), of the name first and of its own
\* result after that.
Sanitize ==
    /\ last.resp.applied < 2
    /\ last' = [op |-> "sanitize",
                resp |-> [name |-> last.resp.name,
                          safe_name |-> SanitizeFilename(last.resp.safe_name),
                          applied |-> last.resp.applied + 1]]
    /\ UNCHANGED <<current_storage_dir, template_state, dirs, files, awaiting>>

SpecSanitize == InitSanitize /\ [][Sanitize]_vars

\* The nine reserved characters.
Reserved == {"<", ">", ":", "\"", "/", "\\", "|", "?", "*"}

\* s is x with each reserved character replaced by "_" and the blanks at
\* both ends trimmed.
ReplacedAndTrimmed(x, s) ==
    \E i \in 1..(Len(x) + 1) :
        /\ Len(s) <= Len(x) - i + 1
        /\ \A k \in 1..Len(s) :
               s[k] = IF x[i + k - 1] \in Reserved THEN "_" ELSE x[i + k - 1]
        /\ \A k \in (1..(i - 1)) \cup ((i + Len(s))..Len(x)) : x[k] \in {" ", "\t"}
        /\ s # <<>> => (s[1] \notin {" ", "\t"} /\ s[Len(s)] \notin {" ", "\t"})

\* C12: sanitize(x) is x with each of the nine reserved characters replaced
\* by "_" and the blanks at both ends trimmed, and sanitize applied to that
\* result gives the result back: sanitize(sanitize(x)) = sanitize(x).
C12_SanitizeIdempotent ==
    [][Sanitize =>
         /\ last.resp.applied = 0 =>
                ReplacedAndTrimmed(last.resp.name, last'.resp.safe_name)
         /\ last.resp.applied = 1 =>
                last'.resp.safe_name = last.resp.safe_name]_vars

\* The sanitizer was applied twice to " /a": the result is "_a".
C12_Witness ==
    /\ last.op = "sanitize"
    /\ last.resp.applied = 2
    /\ last.resp.name = <<" ", "/", "a">>
    /\ last.resp.safe_name = <<"_", "a">>

---------------------------------------------------------------------------
(* Concurrent save requests.  The host runs the handlers as coroutines on  *)
(* one event loop: a handler is suspended at its await request.json(), the *)
(* one await of each handler, and runs from there to its return without    *)
(* giving up the loop.  At most MaxInFlight requests are suspended at a    *)
(* time; all of them save to the file "_.json", under the names "/" and    *)
(* "_".                                                                    *)

MaxInFlight == 2

ConcurrentRequests ==
    { [op |-> "save", body |-> Body(n @@ e)] :
        n \in Field("template_name", {<<"/">>, <<"_">>}),
        e \in Field("entries", {E1}) }
    \cup { [op |-> "templates_save", body |-> Body(n @@ e)] :
             n \in Field("name", {<<"/">>, <<"_">>}),
             e \in Field("entries", {E2}) }
    \cup { [op |-> "templates_sync", body |-> Body("templates" :> <<n @@ e>>)] :
             n \in Field("name", {<<"/">>, <<"_">>}),
             e \in Field("entries", {E1}) }

\* The connection a new request arrives on: the first that is free.
FreeSlot ==
    CHOOSE slot \in 1..MaxInFlight :
        /\ \A req \in awaiting : req.slot # slot
        /\ \A other \in 1..(slot - 1) : \E req \in awaiting : req.slot = other

\* A request arrives: its handler starts and is suspended at
\* await request.json().
Arrive(request) ==
    /\ Cardinality(awaiting) < MaxInFlight
    /\ awaiting' = awaiting \cup
                     {[slot |-> FreeSlot, op |-> request.op,
                       body |-> request.body]}
    /\ UNCHANGED <<current_storage_dir, template_state, dirs, files, last>>

\* The body of a suspended request has come: its handler runs to its
\* return.
Resume(req, now) ==
    /\ req \in awaiting
    /\ awaiting' = awaiting \ {req}
    /\ CASE req.op = "save" -> SaveTemplate(req.body, now)
         [] req.op = "templates_save" -> SaveTemplateToFile(req.body, now)
         [] req.op = "templates_sync" -> SyncTemplates(req.body)

NextConcurrent ==
    \/ \E request \in ConcurrentRequests : Arrive(request)
    \/ \E req \in awaiting, now \in Now : Resume(req, now)

SpecConcurrent == Init /\ [][NextConcurrent]_vars

\* The complete templates the handler of the request may write.
WrittenBy(req, now) ==
    CASE req.op = "save" ->
             { [name |-> SavedName(req.body),
                entries |-> req.body.data["entries"],
                hash |-> SavedHash(req.body),
                updatedAt |-> now] }
      [] req.op = "templates_save" ->
             { req.body.data @@ ("updatedAt" :> now) @@ ("createdAt" :> now) }
      [] req.op = "templates_sync" ->
             { req.body.data["templates"][i] :
                 i \in 1..Len(req.body.data["templates"]) }

\* C13: with save requests in flight together for one file, the handlers
\* run one after the other from their await on: a file a handler has
\* written holds, when the handler returns, one complete template of that
\* request, whatever the others in flight have written or will write.
C13_SavesDoNotInterleave ==
    [][\A req \in awaiting, now \in Now :
         Resume(req, now) =>
           \A fp \in Touched :
               /\ fp \in DOMAIN files'
               /\ \E t \in WrittenBy(req, now) :
                      files'[fp] = [valid |-> TRUE, obj |-> t]]_vars

\* A handler has written the file while the request that arrived after it
\* was suspended, and that request is still suspended.
C13_Witness ==
    /\ \E req \in awaiting : req.slot = 2
    /\ Cardinality(awaiting) = 1
    /\ last.resp.status = "ok"
    /\ DOMAIN files # {}

---------------------------------------------------------------------------
(* Claims about POST /alexandria/templates/sync, under Spec *)

\* The directory of the current root (defined when the root resolves).
StorageDir == GetStoragePath(current_storage_dir)

\* C14: a POST /alexandria/templates/sync, whatever the names it submits,
\* leaves every file that is in the storage directory when the call starts
\* in place and with the content it had: sync only adds files.
C14_SyncOnlyAdds ==
    [][\A body \in SyncBodies :
         (~ResolveFails(current_storage_dir) /\ SyncTemplates(body)) =>
           \A fp \in InDir(files, StorageDir) :
               fp \in DOMAIN files' /\ files'[fp] = files[fp]]_vars

\* C15: a POST /alexandria/templates/sync answered "ok" reports as
\* saved_count the number of templates that are on disk after the call and
\* were not before it, also for a list that carries a name more than once,
\* and as total_count the number of templates of the merged set it returns.
C15_SyncCounts ==
    [][\A body \in SyncBodies :
         (SyncTemplates(body) /\ last'.resp.status = "ok") =>
           /\ last'.resp.saved_count =
                  Cardinality(InDir(files', StorageDir)
                                \ InDir(files, StorageDir))
           /\ last'.resp.total_count = Cardinality(last'.resp.templates)]_vars

---------------------------------------------------------------------------
(* The order of eviction, under SpecCache *)

\* The names of the cache, oldest first.
NamesOf(cache) == [i \in 1..Len(cache) |-> cache[i].name]

\* C16: a POST /alexandria/save for a name the cache holds, skipped or
\* storing a changed hash, leaves every name at its place in the order;
\* and the eviction pass of an insertion that exceeds the cap removes the
\* names inserted first, the name updated last among them.
C16_EvictionByInsertionOrder ==
    /\ [][\A e \in {E1, E2}, now \in Now :
            (/\ template_state # <<>>
             /\ SaveTemplate(Body(("template_name" :> template_state[1].name)
                                  @@ ("entries" :> e)), now)) =>
              NamesOf(template_state') = NamesOf(template_state)]_vars
    /\ [][\A k \in 1..MaxCacheNames, now \in Now :
            (/\ IsNextName(k)
             /\ SaveTemplate(Body(("template_name" :> Numeral(k))
                                  @@ ("entries" :> E1)), now)
             /\ Len(template_state) = 200) =>
              NamesOf(template_state') =
                  SubSeq(Append(NamesOf(template_state), Numeral(k)),
                         42, 201)]_vars

\* The oldest name of a cache at its cap has just stored a changed hash
\* and is still the first in the order.
C16_Witness ==
    /\ Len(template_state) = 200
    /\ last.resp.status = "ok"
    /\ last.resp.template_name = template_state[1].name
    /\ template_state[1].hash = EntriesHash(E2)

---------------------------------------------------------------------------
(* The save-trigger node and the root, under SpecRoots *)

\* C17: executing the save-trigger node sets the root to custom_path when
\* path_override is on and custom_path is not empty, and to the default
\* directory otherwise, whatever the root was; the storage_directory of
\* the event it emits is the directory of that root, and the operation that
\* follows, unless it sets the root itself, works in that directory.
C17_ExecuteOverwritesRoot ==
    /\ [][\A inp \in RootedExecuteInputs, now \in Now :
            Execute(inp, now) =>
              /\ current_storage_dir' =
                     IF inp.path_override /\ inp.custom_path # <<>>
                     THEN [k |-> "str", p |-> inp.custom_path]
                     ELSE [k |-> "str", p |-> <<"alexandria_templates">>]
              /\ last'.resp.event.storage_directory = ActiveDir']_vars
    /\ [][(last.op = "execute" /\ last'.op \notin {"execute", "set_storage_dir"}) =>
              /\ current_storage_dir' = current_storage_dir
              /\ \A fp \in Touched : fp[1] = last.resp.event.storage_directory
              /\ "file_path" \in DOMAIN last'.resp =>
                     last'.resp.file_path[1] = last.resp.event.storage_directory
              /\ "storage_directory" \in DOMAIN last'.resp =>
                     last'.resp.storage_directory =
                         last.resp.event.storage_directory]_vars

\* The node ran with path_override off while the root set before it was
\* the custom directory, which holds a file: the root is the default
\* directory again.
C17_Witness ==
    /\ last.op = "execute"
    /\ current_storage_dir = RootStr(DEFAULT_STORAGE_DIR)
    /\ last.resp.event.storage_directory = Cwd \o DEFAULT_STORAGE_DIR
    /\ InDir(files, Cwd \o Custom) # {}
    /\ InDir(files, Cwd \o DEFAULT_STORAGE_DIR) = {}

---------------------------------------------------------------------------
(* The cache and the store, under SpecSave *)

\* C18: whenever POST /alexandria/save answers "skipped" for
\* (template_name, entries), the file <sanitized template_name>.json is in
\* the directory of the current root and holds the submitted entries (as
\* JSON values: the order of the keys of an entry does not count).
C18_SkippedMeansStored ==
    [][\A body \in Hashed(CachedSaveBodies), now \in Now :
         (SaveTemplate(body, now) /\ last'.resp.status = "skipped") =>
           /\ ~ResolveFails(current_storage_dir)
           /\ FileOf(SavedName(body)) \in DOMAIN files'
           /\ JsonDumpsSorted(files'[FileOf(SavedName(body))].obj["entries"]) =
                  JsonDumpsSorted(body.data["entries"])]_vars

\* C19: a POST /alexandria/save answered "error" leaves the cache as it
\* was before the request.
C19_FailedSaveKeepsCache ==
    [][\A body \in CachedSaveBodies, now \in Now :
         (SaveTemplate(body, now) /\ last'.resp.status = "error") =>
           UNCHANGED template_state]_vars

====
